---- MODULE Spec2Model ----
(***************************************************************************)
(* Model of the NSF Grants Explorer (src/app.py): the cached loader        *)
(* load_data, and the data preparation of the pages that build the         *)
(* aggregate, per-capita and national-average tables.                      *)
(*                                                                         *)
(* Representation                                                          *)
(*   - a DataFrame is a sequence of records (one record per row);          *)
(*   - a string cell is a tuple of one-character strings, so that          *)
(*     str.strip / str.lower are computed and not assumed;                 *)
(*   - a numeric cell is a record [k, n, d]: k = "num" is the rational     *)
(*     n/d (d >= 1, reduced), k = "nan" is NaN, k = "inf" is +inf and      *)
(*     k = "text" is a non-numeric text in a numeric CSV column.           *)
(*     float64 rounding is not modelled: arithmetic is exact.              *)
(***************************************************************************)
EXTENDS Integers, Sequences, FiniteSets, TLC

VARIABLES
    grants_csv,   \* NSF_Grants_Last5Years_Clean.csv
    trump_csv,    \* trump17-21-csv.csv
    pop_csv,      \* estimated_population.csv
    abbr_csv,     \* state_abbreviations.csv
    cache,        \* st.cache_data entry of load_data
    pc,           \* position of the current script run
    page,         \* value of the sidebar radio in the current run
    df_grants, df_trump, df_pop, df_abbr,   \* module-level result of load_data
    q1_full,      \* state aggregate table
    q2_full,      \* directorate aggregate table
    q6_grants_full, df_pop_full, q6_df, us_avg,  \* Q6 tables
    q3_df,        \* cancellation comparison table
    q4_df,        \* table by (year, state, directorate)
    sel_state, sel_dir,   \* values of the two Q4 select boxes
    filtered_df,  \* q4_df under the two filters
    selected_state,       \* value of the Q5 select box
    master,       \* Q5 timeline of the selected state
    q5_data       \* dashboard table by (state, year)

vars == <<grants_csv, trump_csv, pop_csv, abbr_csv, cache, pc, page,
          df_grants, df_trump, df_pop, df_abbr,
          q1_full, q2_full, q6_grants_full, df_pop_full, q6_df, us_avg,
          q3_df, q4_df, sel_state, sel_dir, filtered_df, selected_state, master, q5_data>>

files == <<grants_csv, trump_csv, pop_csv, abbr_csv>>
loaded == <<df_grants, df_trump, df_pop, df_abbr>>
tables == <<q1_full, q2_full, q6_grants_full, df_pop_full, q6_df, us_avg>>
views == <<q3_df, q4_df, sel_state, sel_dir, filtered_df, selected_state, master, q5_data>>

----------------------------------------------------------------------------
(* Numeric cells *)

Num(i) == [k |-> "num", n |-> i, d |-> 1]
NaN == [k |-> "nan", n |-> 0, d |-> 1]
Inf == [k |-> "inf", n |-> 0, d |-> 1]
Text == [k |-> "text", n |-> 0, d |-> 1]

IsNum(v) == v.k = "num"
IsNull(v) == v.k = "nan"

RECURSIVE Gcd(_, _)
Gcd(a, b) == IF b = 0 THEN a ELSE Gcd(b, a % b)

\* the rational a/b, b > 0, a >= 0, in lowest terms
Frac(a, b) == LET g == Gcd(a, b) IN [k |-> "num", n |-> a \div g, d |-> b \div g]

\* float addition on non-negative values
Add(x, y) ==
    IF x.k = "nan" \/ y.k = "nan" THEN NaN
    ELSE IF x.k = "inf" \/ y.k = "inf" THEN Inf
    ELSE Frac(x.n * y.d + y.n * x.d, x.d * y.d)

\* float division x / y on non-negative values: x/0 is inf, 0/0 is NaN
Div(x, y) ==
    IF x.k = "nan" \/ y.k = "nan" THEN NaN
    ELSE IF x.k = "inf" THEN (IF y.k = "inf" THEN NaN ELSE Inf)
    ELSE IF y.k = "inf" THEN Num(0)
    ELSE IF y.n = 0 THEN (IF x.n = 0 THEN NaN ELSE Inf)
    ELSE Frac(x.n * y.d, x.d * y.n)

\* pd.to_numeric(errors="coerce"): a non-numeric cell becomes NaN
ToNumeric(v) == IF v.k = "text" THEN NaN ELSE v

\* Series.fillna(0)
FillNa0(v) == IF v.k = "nan" THEN Num(0) ELSE v

\* Series.astype(int) on a column of whole numbers
AsInt(v) == v.n \div v.d

----------------------------------------------------------------------------
(* String cells *)

NaNStr == <<"NaN">>     \* the missing value of a string column

UpperLetters == <<"A","B","C","D","E","F","G","H","I","J","K","L","M",
                  "N","O","P","Q","R","S","T","U","V","W","X","Y","Z">>
LowerLetters == <<"a","b","c","d","e","f","g","h","i","j","k","l","m",
                  "n","o","p","q","r","s","t","u","v","w","x","y","z">>

\* code-point order of the characters used
Alphabet == <<" ">> \o UpperLetters \o <<"_">> \o LowerLetters

IsNullStr(s) == s = NaNStr

LowerChar(c) ==
    IF \E i \in 1..26 : UpperLetters[i] = c
    THEN LowerLetters[CHOOSE i \in 1..26 : UpperLetters[i] = c]
    ELSE c

\* Series.str.lower(): NaN stays NaN
Lower(s) == [i \in 1..Len(s) |-> LowerChar(s[i])]

RECURSIVE LStrip(_)
LStrip(s) == IF s # <<>> /\ Head(s) = " " THEN LStrip(Tail(s)) ELSE s

RECURSIVE RStrip(_)
RStrip(s) == IF s # <<>> /\ s[Len(s)] = " " THEN RStrip(SubSeq(s, 1, Len(s) - 1)) ELSE s

\* Series.str.strip(): NaN stays NaN
Strip(s) == RStrip(LStrip(s))

\* Series.astype(str): NaN becomes the text "nan"
AsStr(s) == IF IsNullStr(s) THEN <<"n","a","n">> ELSE s

\* sub in s
Contains(sub, s) ==
    \E i \in 1..(Len(s) - Len(sub) + 1) : SubSeq(s, i, i + Len(sub) - 1) = sub

CharRank(c) == IF \E i \in 1..Len(Alphabet) : Alphabet[i] = c
               THEN CHOOSE i \in 1..Len(Alphabet) : Alphabet[i] = c
               ELSE 0

\* s < t in Python's string order
RECURSIVE StrLess(_, _)
StrLess(s, t) ==
    IF t = <<>> THEN FALSE
    ELSE IF s = <<>> THEN TRUE
    ELSE IF Head(s) = Head(t) THEN StrLess(Tail(s), Tail(t))
    ELSE CharRank(Head(s)) < CharRank(Head(t))

----------------------------------------------------------------------------
(* DataFrame helpers *)

Df(rows) == [none |-> FALSE, rows |-> rows]
NoneDf == [none |-> TRUE, rows |-> <<>>]       \* Python None / name not bound

SeqToSet(s) == {s[i] : i \in 1..Len(s)}

RECURSIVE Flatten(_)
Flatten(ss) == IF ss = <<>> THEN <<>> ELSE Head(ss) \o Flatten(Tail(ss))

RECURSIVE SortStr(_)
SortStr(S) ==
    IF S = {} THEN <<>>
    ELSE LET m == CHOOSE x \in S : \A y \in S \ {x} : StrLess(x, y)
         IN <<m>> \o SortStr(S \ {m})

RECURSIVE SortInt(_)
SortInt(S) ==
    IF S = {} THEN <<>>
    ELSE LET m == CHOOSE x \in S : \A y \in S : x <= y
         IN <<m>> \o SortInt(S \ {m})

\* keys <<entity, year>> in lexicographic order
PairLess(a, b) == StrLess(a[1], b[1]) \/ (a[1] = b[1] /\ a[2] < b[2])

RECURSIVE SortPair(_)
SortPair(S) ==
    IF S = {} THEN <<>>
    ELSE LET m == CHOOSE x \in S : \A y \in S \ {x} : PairLess(x, y)
         IN <<m>> \o SortPair(S \ {m})

\* Series.sum(): NaN is skipped, the sum of nothing is 0
RECURSIVE SumSkipNa(_)
SumSkipNa(vs) ==
    IF vs = <<>> THEN Num(0)
    ELSE IF IsNull(Head(vs)) THEN SumSkipNa(Tail(vs))
    ELSE Add(Head(vs), SumSkipNa(Tail(vs)))

\* Series.count(): the number of non-null cells
CountNonNull(ss) == Len(SelectSeq(ss, LAMBDA s : ~IsNullStr(s)))

\* Series.mean(): NaN is skipped, the mean of nothing is NaN
Mean(vs) ==
    LET nn == SelectSeq(vs, LAMBDA v : ~IsNull(v))
    IN IF nn = <<>> THEN NaN ELSE Div(SumSkipNa(nn), Num(Len(nn)))

Column(df, col) == [i \in 1..Len(df) |-> df[i][col]]

\* df.groupby([col, "year"]).agg(grants_count=("award_id", "count"),
\*                               total_amount=("award_amount", "sum")).reset_index()
\* rows whose key is null are left out of every group; groups come sorted by key
GroupYearly(df, col) ==
    LET keyed == SelectSeq(df, LAMBDA r : ~IsNullStr(r[col]))
        keys == SortPair({<<r[col], r.year>> : r \in SeqToSet(keyed)})
    IN [i \in 1..Len(keys) |->
          LET g == SelectSeq(keyed, LAMBDA r : r[col] = keys[i][1] /\ r.year = keys[i][2])
          IN [key |-> keys[i][1], year |-> keys[i][2],
              grants_count |-> CountNonNull(Column(g, "award_id")),
              total_amount |-> SumSkipNa(Column(g, "award_amount"))]]

\* df.groupby([col]).agg(...).reset_index() followed by  ["year"] = 0
GroupTotal(df, col) ==
    LET keyed == SelectSeq(df, LAMBDA r : ~IsNullStr(r[col]))
        keys == SortStr({r[col] : r \in SeqToSet(keyed)})
    IN [i \in 1..Len(keys) |->
          LET g == SelectSeq(keyed, LAMBDA r : r[col] = keys[i])
          IN [key |-> keys[i], year |-> 0,
              grants_count |-> CountNonNull(Column(g, "award_id")),
              total_amount |-> SumSkipNa(Column(g, "award_amount"))]]

\* pd.concat([yearly, total], ignore_index=True)
AggregateFull(df, col) == GroupYearly(df, col) \o GroupTotal(df, col)

----------------------------------------------------------------------------
(* load_data *)

PopYearMin == 2020
PopYearMax == 2024

\* Series.between(2020, 2024), both ends included
Between(y, lo, hi) == lo <= y /\ y <= hi

\* the positions of the columns of a file, in file order
ColumnIndexes(cols) == [i \in 1..Len(cols) |-> i]

\* df_grants["year"] = pd.to_numeric(df_grants["year"], errors="coerce").fillna(0).astype(int)
CoerceYear(df) == [i \in 1..Len(df) |-> [df[i] EXCEPT !.year = AsInt(FillNa0(ToNumeric(@)))]]

\* df_pop_raw.melt(id_vars=["state"], value_vars=pop_cols, ...): one row per
\* pop_ column and input row, column by column; the year is the column suffix
Melt(pop) ==
    Flatten([c \in 1..Len(pop.pop_cols) |->
               [i \in 1..Len(pop.rows) |->
                  [state_name |-> pop.rows[i].state,
                   year |-> pop.pop_cols[c],
                   population |-> pop.rows[i].pop[pop.pop_cols[c]]]]])

\* PopLong without the filter on the year
PopLong_AllYears(pop) ==
    LET long == Melt(pop)
    IN [i \in 1..Len(long) |-> [long[i] EXCEPT !.population = ToNumeric(@)]]

\* lines 53-64: numeric population, years 2020..2024 only
PopLong(pop) ==
    LET long == Melt(pop)
        numeric == [i \in 1..Len(long) |-> [long[i] EXCEPT !.population = ToNumeric(@)]]
    IN SelectSeq(numeric, LAMBDA r : Between(r.year, PopYearMin, PopYearMax))

\* left.merge(abbr[["state_name_key", "state"]], on="state_name_key", how="left"):
\* one row per matching crosswalk row, one row with a null state when none matches
MergeLeftAbbr(left, abbr) ==
    Flatten([i \in 1..Len(left) |->
               LET m == SelectSeq(abbr, LAMBDA x : x.state_name_key = left[i].state_name_key)
               IN IF m = <<>>
                  THEN <<[state_name |-> left[i].state_name, year |-> left[i].year,
                          population |-> left[i].population,
                          state_name_key |-> left[i].state_name_key, state |-> NaNStr]>>
                  ELSE [j \in 1..Len(m) |->
                          [state_name |-> left[i].state_name, year |-> left[i].year,
                           population |-> left[i].population,
                           state_name_key |-> left[i].state_name_key, state |-> m[j].state]]])

\* DropNaStatePop with subset=["population"] only
DropNaStatePop_PopOnly(df) == SelectSeq(df, LAMBDA r : ~IsNull(r.population))

\* .dropna(subset=["state", "population"])
DropNaStatePop(df) == SelectSeq(df, LAMBDA r : ~IsNullStr(r.state) /\ ~IsNull(r.population))

\* lines 67-68: the first header containing "name", the first containing "abbr"
LoadNameCols(cols) ==
    SelectSeq(ColumnIndexes(cols), LAMBDA i : Contains(<<"n","a","m","e">>, Lower(cols[i])))
LoadAbbrCols(cols) ==
    SelectSeq(ColumnIndexes(cols), LAMBDA i : Contains(<<"a","b","b","r">>, Lower(cols[i])))

\* lines 69-71: the crosswalk with its resolved columns and the lookup key
LoadAbbr(abbr) ==
    LET nc == LoadNameCols(abbr.columns)[1]
        ac == LoadAbbrCols(abbr.columns)[1]
    IN [i \in 1..Len(abbr.rows) |->
          [state_name |-> abbr.rows[i][nc], state |-> abbr.rows[i][ac],
           state_name_key |-> Lower(Strip(abbr.rows[i][nc]))]]

\* PopFinal with the key of the population rows lowercased but not trimmed
PopFinal_NoStrip(pop, abbr) ==
    LET long == PopLong(pop)
        keyed == [i \in 1..Len(long) |->
                    [state_name |-> long[i].state_name,
                     year |-> long[i].year,
                     population |-> long[i].population,
                     state_name_key |-> Lower(long[i].state_name)]]
    IN DropNaStatePop(MergeLeftAbbr(keyed, LoadAbbr(abbr)))

\* lines 72-76
PopFinal(pop, abbr) ==
    LET long == PopLong(pop)
        keyed == [i \in 1..Len(long) |->
                    [state_name |-> long[i].state_name,
                     year |-> long[i].year,
                     population |-> long[i].population,
                     state_name_key |-> Lower(Strip(long[i].state_name))]]
    IN DropNaStatePop(MergeLeftAbbr(keyed, LoadAbbr(abbr)))

\* load_data taking a missing grants, cancellations or population file for an
\* empty table
load_data_EmptyForMissing(g, t, p, a) ==
    IF \/ LoadNameCols(a.columns) = <<>>
       \/ LoadAbbrCols(a.columns) = <<>>
       \/ LoadNameCols(a.columns)[1] = LoadAbbrCols(a.columns)[1]
    THEN [status |-> "raise", df_grants |-> NoneDf, df_trump |-> NoneDf,
          df_pop |-> NoneDf, df_abbr |-> NoneDf]
    ELSE [status |-> "ok",
          df_grants |-> Df(CoerceYear(g.rows)),
          df_trump |-> Df(t.rows),
          df_pop |-> Df(PopFinal(p, a)),
          df_abbr |-> Df(LoadAbbr(a))]

\* load_data returning, when a file is missing, the tables it could read
load_data_Partial(g, t, p, a) ==
    IF ~(g.present /\ t.present /\ p.present /\ a.present)
    THEN [status |-> "none",
          df_grants |-> IF g.present THEN Df(CoerceYear(g.rows)) ELSE NoneDf,
          df_trump |-> IF t.present THEN Df(t.rows) ELSE NoneDf,
          df_pop |-> NoneDf, df_abbr |-> NoneDf]
    ELSE IF \/ LoadNameCols(a.columns) = <<>>
            \/ LoadAbbrCols(a.columns) = <<>>
            \/ LoadNameCols(a.columns)[1] = LoadAbbrCols(a.columns)[1]
    THEN [status |-> "raise", df_grants |-> NoneDf, df_trump |-> NoneDf,
          df_pop |-> NoneDf, df_abbr |-> NoneDf]
    ELSE [status |-> "ok",
          df_grants |-> Df(CoerceYear(g.rows)),
          df_trump |-> Df(t.rows),
          df_pop |-> Df(PopFinal(p, a)),
          df_abbr |-> Df(LoadAbbr(a))]

\* the return value of load_data, or the exception that leaves it:
\*   "none"  a file is missing: st.error and (None, None, None, None)
\*   "raise" no header matches (IndexError), or one header matches both (KeyError)
\*   "ok"    the four tables
load_data(g, t, p, a) ==
    IF ~(g.present /\ t.present /\ p.present /\ a.present)
    THEN [status |-> "none", df_grants |-> NoneDf, df_trump |-> NoneDf,
          df_pop |-> NoneDf, df_abbr |-> NoneDf]
    ELSE IF \/ LoadNameCols(a.columns) = <<>>
            \/ LoadAbbrCols(a.columns) = <<>>
            \/ LoadNameCols(a.columns)[1] = LoadAbbrCols(a.columns)[1]
    THEN [status |-> "raise", df_grants |-> NoneDf, df_trump |-> NoneDf,
          df_pop |-> NoneDf, df_abbr |-> NoneDf]
    ELSE [status |-> "ok",
          df_grants |-> Df(CoerceYear(g.rows)),
          df_trump |-> Df(t.rows),
          df_pop |-> Df(PopFinal(p, a)),
          df_abbr |-> Df(LoadAbbr(a))]

----------------------------------------------------------------------------
(* Q1 and Q2: aggregate tables (lines 185-196, 291-302) *)

Q1Full(grants) ==
    LET a == AggregateFull(grants, "state")
    IN [i \in 1..Len(a) |->
          [state |-> a[i].key, year |-> a[i].year,
           grants_count |-> a[i].grants_count, total_amount |-> a[i].total_amount]]

Q2Full(grants) ==
    LET a == AggregateFull(grants, "directorate")
    IN [i \in 1..Len(a) |->
          [directorate |-> a[i].key, year |-> a[i].year,
           grants_count |-> a[i].grants_count, total_amount |-> a[i].total_amount]]

----------------------------------------------------------------------------
(* Q6: population efficiency (lines 645-724) *)

\* lines 668-671
Q6NameCols(cols) ==
    SelectSeq(ColumnIndexes(cols),
              LAMBDA i : \/ Contains(<<"n","a","m","e">>, Lower(cols[i]))
                         \/ Lower(cols[i]) = <<"s","t","a","t","e">>)
Q6AbbrCols(cols) ==
    SelectSeq(ColumnIndexes(cols),
              LAMBDA i : \/ Contains(<<"a","b","b","r">>, Lower(cols[i]))
                         \/ Contains(<<"c","o","d","e">>, Lower(cols[i])))

\* does the Q6 column resolution raise (IndexError, or KeyError when one
\* header is taken for both columns)
Q6AbbrRaises(abbr) ==
    \/ Q6NameCols(abbr.columns) = <<>>
    \/ Q6AbbrCols(abbr.columns) = <<>>
    \/ Q6NameCols(abbr.columns)[1] = Q6AbbrCols(abbr.columns)[1]

\* lines 667-677
Q6Abbr(abbr) ==
    LET nc == Q6NameCols(abbr.columns)[1]
        ac == Q6AbbrCols(abbr.columns)[1]
    IN [i \in 1..Len(abbr.rows) |->
          [state_name |-> Strip(AsStr(abbr.rows[i][nc])),
           state |-> Strip(AsStr(abbr.rows[i][ac])),
           state_name_key |-> Lower(Strip(AsStr(abbr.rows[i][nc])))]]

\* lines 654-683: df_pop_long with columns state, year, population
Q6PopLong(pop, abbr) ==
    LET long == PopLong(pop)
        keyed == [i \in 1..Len(long) |->
                    [state_name |-> Strip(AsStr(long[i].state_name)),
                     year |-> long[i].year,
                     population |-> long[i].population,
                     state_name_key |-> Lower(Strip(AsStr(long[i].state_name)))]]
        merged == DropNaStatePop(MergeLeftAbbr(keyed, Q6Abbr(abbr)))
    IN [i \in 1..Len(merged) |->
          [state |-> merged[i].state, year |-> merged[i].year,
           population |-> merged[i].population]]

\* lines 686-687
Q6Grants(grants) ==
    [i \in 1..Len(grants) |-> [grants[i] EXCEPT !.year = AsInt(ToNumeric(Num(@)))]]

\* lines 691-696
Q6Yearly(grants) ==
    LET kept == SelectSeq(Q6Grants(grants),
                          LAMBDA r : ~IsNullStr(r.state) /\ ~IsNull(r.award_amount))
        g == GroupYearly(kept, "state")
    IN [i \in 1..Len(g) |->
          [state |-> g[i].key, year |-> g[i].year,
           total_amount |-> g[i].total_amount, grants_count |-> g[i].grants_count]]

\* lines 699-705
Q6TotalGrants(grants) ==
    LET kept == SelectSeq(Q6Grants(grants),
                          LAMBDA r : ~IsNullStr(r.state) /\ ~IsNull(r.award_amount))
        g == GroupTotal(kept, "state")
    IN [i \in 1..Len(g) |->
          [state |-> g[i].key, year |-> 0,
           total_amount |-> g[i].total_amount, grants_count |-> g[i].grants_count]]

\* line 715
Q6GrantsFull(grants) == Q6Yearly(grants) \o Q6TotalGrants(grants)

\* PopAvg with .sum() in place of .mean()
PopAvg_Sum(pop_long) ==
    LET keys == SortStr({r.state : r \in SeqToSet(pop_long)})
    IN [i \in 1..Len(keys) |->
          [state |-> keys[i], year |-> 0,
           population |->
               SumSkipNa(Column(SelectSeq(pop_long, LAMBDA r : r.state = keys[i]),
                                "population"))]]

\* lines 708-709: the year=0 population of a state
PopAvg(pop_long) ==
    LET keys == SortStr({r.state : r \in SeqToSet(pop_long)})
    IN [i \in 1..Len(keys) |->
          [state |-> keys[i], year |-> 0,
           population |->
               Mean(Column(SelectSeq(pop_long, LAMBDA r : r.state = keys[i]),
                           "population"))]]

\* line 712
PopFull(pop_long) == pop_long \o PopAvg(pop_long)

\* MergePerCapita with how="left": an aggregate row without a population row is kept
MergePerCapita_Left(grants_full, pop_full) ==
    Flatten([i \in 1..Len(grants_full) |->
               LET m == SelectSeq(pop_full,
                                  LAMBDA x : x.state = grants_full[i].state
                                             /\ x.year = grants_full[i].year)
                   n == IF m = <<>>
                        THEN <<[state |-> grants_full[i].state,
                                year |-> grants_full[i].year, population |-> NaN]>>
                        ELSE m
               IN [j \in 1..Len(n) |->
                     [state |-> grants_full[i].state, year |-> grants_full[i].year,
                      total_amount |-> grants_full[i].total_amount,
                      grants_count |-> grants_full[i].grants_count,
                      population |-> n[j].population,
                      funding_per_capita |->
                          Div(grants_full[i].total_amount, n[j].population)]]])

\* MergePerCapita with the ratio taken the wrong way round
MergePerCapita_Swapped(grants_full, pop_full) ==
    Flatten([i \in 1..Len(grants_full) |->
               LET m == SelectSeq(pop_full,
                                  LAMBDA x : x.state = grants_full[i].state
                                             /\ x.year = grants_full[i].year)
               IN [j \in 1..Len(m) |->
                     [state |-> grants_full[i].state, year |-> grants_full[i].year,
                      total_amount |-> grants_full[i].total_amount,
                      grants_count |-> grants_full[i].grants_count,
                      population |-> m[j].population,
                      funding_per_capita |->
                          Div(m[j].population, grants_full[i].total_amount)]]])

\* lines 718-719: inner merge on (state, year), then the ratio
MergePerCapita(grants_full, pop_full) ==
    Flatten([i \in 1..Len(grants_full) |->
               LET m == SelectSeq(pop_full,
                                  LAMBDA x : x.state = grants_full[i].state
                                             /\ x.year = grants_full[i].year)
               IN [j \in 1..Len(m) |->
                     [state |-> grants_full[i].state, year |-> grants_full[i].year,
                      total_amount |-> grants_full[i].total_amount,
                      grants_count |-> grants_full[i].grants_count,
                      population |-> m[j].population,
                      funding_per_capita |->
                          Div(grants_full[i].total_amount, m[j].population)]]])

\* UsAvg as total funding over total population of the year
UsAvg_Weighted(per_capita) ==
    LET years == SortInt({r.year : r \in SeqToSet(per_capita)})
    IN [i \in 1..Len(years) |->
          LET g == SelectSeq(per_capita, LAMBDA r : r.year = years[i])
          IN [year |-> years[i],
              us_avg_per_capita |->
                  Div(SumSkipNa(Column(g, "total_amount")),
                      SumSkipNa(Column(g, "population")))]]

\* lines 722-723
UsAvg(per_capita) ==
    LET years == SortInt({r.year : r \in SeqToSet(per_capita)})
    IN [i \in 1..Len(years) |->
          [year |-> years[i],
           us_avg_per_capita |->
               Mean(Column(SelectSeq(per_capita, LAMBDA r : r.year = years[i]),
                           "funding_per_capita"))]]

\* line 724: q6_df with the national average of its year attached
Q6Df(per_capita) ==
    LET avg == SeqToSet(UsAvg(per_capita))
    IN [i \in 1..Len(per_capita) |->
          [state |-> per_capita[i].state, year |-> per_capita[i].year,
           total_amount |-> per_capita[i].total_amount,
           grants_count |-> per_capita[i].grants_count,
           population |-> per_capita[i].population,
           funding_per_capita |-> per_capita[i].funding_per_capita,
           us_avg_per_capita |->
               (CHOOSE a \in avg : a.year = per_capita[i].year).us_avg_per_capita]]

----------------------------------------------------------------------------
(* Input files: the bounded contents the model draws from *)

MaxGrants == 2      \* rows of the grants file
MaxTrump == 2       \* rows of the cancellations file
MaxPopRows == 2     \* rows of the population file

OH == <<"O","H">>
UT == <<"U","T">>
IA == <<"I","A">>
BIO == <<"B","I","O">>
GEO == <<"G","E","O">>
A1 == <<"A">>
Ohio == <<"O","h","i","o">>
OhioPadded == <<" ","o","h","i","o"," ">>
OhioUpper == <<"O","H","I","O">>
Utah == <<"U","t","a","h">>
Iowa == <<"I","o","w","a">>
Atlantis == <<"A","t","l","a","n","t","i","s">>
HName == <<"N","a","m","e">>
HAbbr == <<"A","b","b","r">>
HCode == <<"C","o","d","e">>

Grant(st, dir, yr, amt) ==
    [award_id |-> A1, state |-> st, directorate |-> dir, year |-> yr, award_amount |-> amt]

\* the rows a grants file is made of: every clean combination, and one row
\* for each way a field can be missing or non-numeric
GrantRowDom ==
    [i \in 1..16 |->
       Grant(<<OH, UT>>[(((i - 1) \div 8) % 2) + 1],
             <<BIO, GEO>>[(((i - 1) \div 4) % 2) + 1],
             Num(<<2021, 2022>>[(((i - 1) \div 2) % 2) + 1]),
             Num(<<1000, 2000>>[((i - 1) % 2) + 1]))]
    \o << [Grant(OH, BIO, Num(2021), Num(1000)) EXCEPT !.award_id = NaNStr],
          Grant(NaNStr, BIO, Num(2021), Num(1000)),
          Grant(OH, NaNStr, Num(2021), Num(1000)),
          Grant(OH, BIO, Text, Num(1000)),
          Grant(OH, BIO, Num(2021), NaN),
          Grant(OH, BIO, Num(2021), Num(0)),
          Grant(Atlantis, BIO, Num(2021), Num(1000)) >>

TrumpRowDom ==
    << Grant(OH, BIO, Num(2019), Num(1000)),
       Grant(OH, BIO, Text, Num(1000)),
       Grant(UT, GEO, Num(2020), Num(2000)) >>

PopRow(name, p19, p21, p22) ==
    [state |-> name, pop |-> [y \in {2019, 2021, 2022} |->
                                IF y = 2019 THEN p19 ELSE IF y = 2021 THEN p21 ELSE p22]]

\* the rows a population file is made of; its columns are pop_2019, pop_2021, pop_2022
PopRowDom ==
    [i \in 1..24 |->
       PopRow(<<Ohio, OhioPadded, Utah, Atlantis>>[(((i - 1) \div 6) % 4) + 1],
              Num(50),
              <<Num(100), Num(0), Text>>[(((i - 1) \div 2) % 3) + 1],
              <<Num(200), Text>>[((i - 1) % 2) + 1])]

\* the tables of at most n rows drawn from dom; row order does not enter any
\* operation of the program, so one order stands for each multiset of rows
SortedTables(dom, n) ==
    UNION {{[i \in 1..len |-> dom[f[i]]] :
              f \in {h \in [1..len -> 1..Len(dom)] :
                       \A i \in 1..(len - 1) : h[i] <= h[i + 1]}} : len \in 0..n}

File(rows) == [present |-> TRUE, rows |-> rows]
MissingFile == [present |-> FALSE, rows |-> <<>>]

PopFile(rows) == [present |-> TRUE, pop_cols |-> <<2019, 2021, 2022>>, rows |-> rows]
MissingPopFile == [present |-> FALSE, pop_cols |-> <<>>, rows |-> <<>>]

AbbrFile(cols, rows) == [present |-> TRUE, columns |-> cols, rows |-> rows]
MissingAbbrFile == [present |-> FALSE, columns |-> <<>>, rows |-> <<>>]

DefaultTrump == File(<<TrumpRowDom[1]>>)
DefaultAbbr == AbbrFile(<<HName, HAbbr>>, << <<Ohio, OH>>, <<Utah, UT>> >>)

\* a crosswalk in which two names share one key
DupKeyAbbr == AbbrFile(<<HName, HAbbr>>, << <<Ohio, OH>>, <<OhioUpper, OH>>, <<Utah, UT>> >>)
\* the code column first
SwappedAbbr == AbbrFile(<<HAbbr, HName>>, << <<OH, Ohio>>, <<UT, Utah>> >>)
\* the code column headed "Code"
CodeAbbr == AbbrFile(<<HName, HCode>>, << <<Ohio, OH>>, <<Utah, UT>> >>)
\* a lowercase code, and one key with two codes
DirtyAbbr ==
    AbbrFile(<<HName, HAbbr>>, << <<Ohio, <<"o","h">>>>, <<OhioUpper, OH>>, <<Utah, UT>> >>)

GrantsSmall ==
    { File(<<Grant(OH, BIO, Num(2021), Num(1000)), Grant(OH, BIO, Num(2022), Num(2000))>>),
      File(<<Grant(OH, BIO, Num(2021), Num(2000)), Grant(UT, GEO, Num(2021), Num(2000)),
             Grant(UT, GEO, Text, Num(1000))>>) }

PopSmall ==
    { PopFile(<<PopRow(Ohio, Num(50), Num(100), Num(200))>>),
      PopFile(<<PopRow(Ohio, Num(50), Num(100), Num(200)),
                PopRow(Utah, Num(50), Num(200), Num(200))>>),
      PopFile(<<PopRow(Ohio, Num(50), Num(0), Num(200)),
                PopRow(Utah, Num(50), Num(100), Text)>>) }

\* three states whose per-capita values in 2021 are 10, 20 and 30
ExampleGrants ==
    File(<<Grant(OH, BIO, Num(2021), Num(2000)), Grant(UT, BIO, Num(2021), Num(2000)),
           Grant(IA, GEO, Num(2021), Num(3000))>>)
ExamplePop ==
    PopFile(<<PopRow(Ohio, Num(50), Num(200), Num(100)), PopRow(Utah, Num(50), Num(100), Num(100)),
              PopRow(Iowa, Num(50), Num(100), Num(100))>>)
ExampleAbbr ==
    AbbrFile(<<HName, HAbbr>>, << <<Ohio, OH>>, <<Utah, UT>>, <<Iowa, IA>> >>)

\* the file contents the program is started on
InitFiles ==
    \/ /\ grants_csv \in {File(t) : t \in SortedTables(GrantRowDom, MaxGrants)}
       /\ trump_csv = DefaultTrump
       /\ pop_csv \in PopSmall
       /\ abbr_csv = DefaultAbbr
    \/ /\ grants_csv \in GrantsSmall
       /\ trump_csv = DefaultTrump
       /\ pop_csv \in {PopFile(t) : t \in SortedTables(PopRowDom, MaxPopRows)}
       /\ abbr_csv \in {DefaultAbbr, DupKeyAbbr}
    \/ /\ grants_csv \in GrantsSmall
       /\ trump_csv \in {File(t) : t \in SortedTables(TrumpRowDom, MaxTrump)}
       /\ pop_csv \in PopSmall
       /\ abbr_csv \in {SwappedAbbr, CodeAbbr, DirtyAbbr}
    \/ /\ grants_csv = ExampleGrants
       /\ trump_csv = DefaultTrump
       /\ pop_csv = ExamplePop
       /\ abbr_csv = ExampleAbbr
    \/ \E missing \in 1..4 :
          /\ grants_csv = IF missing = 1 THEN MissingFile
                          ELSE File(<<Grant(OH, BIO, Num(2021), Num(1000))>>)
          /\ trump_csv = IF missing = 2 THEN MissingFile ELSE DefaultTrump
          /\ pop_csv = IF missing = 3 THEN MissingPopFile
                       ELSE PopFile(<<PopRow(Ohio, Num(50), Num(100), Num(200))>>)
          /\ abbr_csv = IF missing = 4 THEN MissingAbbrFile ELSE DefaultAbbr

----------------------------------------------------------------------------
(* The script: one run per user interaction *)

EmptyCache == [filled |-> FALSE, value |-> load_data(MissingFile, MissingFile,
                                                     MissingPopFile, MissingAbbrFile)]

Init ==
    /\ InitFiles
    /\ cache = EmptyCache
    /\ pc = "start"
    /\ page = "none"
    /\ df_grants = NoneDf /\ df_trump = NoneDf /\ df_pop = NoneDf /\ df_abbr = NoneDf
    /\ q1_full = NoneDf /\ q2_full = NoneDf
    /\ q6_grants_full = NoneDf /\ df_pop_full = NoneDf /\ q6_df = NoneDf /\ us_avg = NoneDf
    /\ q3_df = NoneDf /\ q4_df = NoneDf /\ filtered_df = NoneDf
    /\ master = NoneDf /\ q5_data = NoneDf
    /\ sel_state = NaNStr /\ sel_dir = NaNStr /\ selected_state = NaNStr

\* line 82: df_grants, df_trump, df_pop, df_abbr = load_data(), through st.cache_data:
\* a cached return value is reused, a raised exception is not cached
LoadData ==
    /\ pc = "start"
    /\ LET r == IF cache.filled THEN cache.value
                ELSE load_data(grants_csv, trump_csv, pop_csv, abbr_csv)
       IN IF r.status = "raise"
          THEN /\ pc' = "crashed"
               /\ UNCHANGED <<cache, loaded>>
          ELSE /\ pc' = "loaded"
               /\ cache' = [filled |-> TRUE, value |-> r]
               /\ df_grants' = r.df_grants
               /\ df_trump' = r.df_trump
               /\ df_pop' = r.df_pop
               /\ df_abbr' = r.df_abbr
    /\ UNCHANGED <<views, files, page, tables>>

\* lines 84-85
StopNoData ==
    /\ pc = "loaded"
    /\ df_grants.none
    /\ pc' = "stopped"
    /\ UNCHANGED <<views, files, cache, page, loaded, tables>>

\* line 119: the home page computes no table
PageHome ==
    /\ pc = "loaded"
    /\ ~df_grants.none
    /\ page' = "Home"
    /\ pc' = "done"
    /\ UNCHANGED <<views, files, cache, loaded, tables>>

\* lines 178-196
PageQ1 ==
    /\ pc = "loaded"
    /\ ~df_grants.none
    /\ page' = "Q1"
    /\ q1_full' = Df(Q1Full(df_grants.rows))
    /\ pc' = "done"
    /\ UNCHANGED <<views, files, cache, loaded, q2_full, q6_grants_full, df_pop_full, q6_df, us_avg>>

\* lines 284-302
PageQ2 ==
    /\ pc = "loaded"
    /\ ~df_grants.none
    /\ page' = "Q2"
    /\ q2_full' = Df(Q2Full(df_grants.rows))
    /\ pc' = "done"
    /\ UNCHANGED <<views, files, cache, loaded, q1_full, q6_grants_full, df_pop_full, q6_df, us_avg>>

\* PageQ6 dropping the rows without state or amount from df_grants itself
PageQ6_InPlace ==
    /\ pc = "loaded"
    /\ ~df_grants.none
    /\ page' = "Q6"
    /\ IF ~pop_csv.present \/ ~abbr_csv.present \/ Q6AbbrRaises(abbr_csv)
       THEN /\ pc' = "crashed"
            /\ UNCHANGED <<q6_grants_full, df_pop_full, q6_df, us_avg, df_grants>>
       ELSE LET pop_long == Q6PopLong(pop_csv, abbr_csv)
                grants_full == Q6GrantsFull(df_grants.rows)
                per_capita == MergePerCapita(grants_full, PopFull(pop_long))
            IN /\ df_grants' = Df(SelectSeq(df_grants.rows,
                                            LAMBDA r : ~IsNullStr(r.state)
                                                       /\ ~IsNull(r.award_amount)))
               /\ q6_grants_full' = Df(grants_full)
               /\ df_pop_full' = Df(PopFull(pop_long))
               /\ q6_df' = Df(Q6Df(per_capita))
               /\ us_avg' = Df(UsAvg(per_capita))
               /\ pc' = "done"
    /\ UNCHANGED <<views, files, cache, df_trump, df_pop, df_abbr, q1_full, q2_full>>

\* lines 639-724: the page reads the population and crosswalk files again
PageQ6 ==
    /\ pc = "loaded"
    /\ ~df_grants.none
    /\ page' = "Q6"
    /\ IF ~pop_csv.present \/ ~abbr_csv.present \/ Q6AbbrRaises(abbr_csv)
       THEN /\ pc' = "crashed"
            /\ UNCHANGED <<q6_grants_full, df_pop_full, q6_df, us_avg>>
       ELSE LET pop_long == Q6PopLong(pop_csv, abbr_csv)
                grants_full == Q6GrantsFull(df_grants.rows)
                per_capita == MergePerCapita(grants_full, PopFull(pop_long))
            IN /\ q6_grants_full' = Df(grants_full)
               /\ df_pop_full' = Df(PopFull(pop_long))
               /\ q6_df' = Df(Q6Df(per_capita))
               /\ us_avg' = Df(UsAvg(per_capita))
               /\ pc' = "done"
    /\ UNCHANGED <<views, files, cache, loaded, q1_full, q2_full>>

\* a user interaction starts the script again: module-level names are unbound,
\* the cache is kept
Rerun ==
    /\ pc \in {"done", "stopped", "crashed"}
    /\ pc' = "start"
    /\ page' = "none"
    /\ df_grants' = NoneDf /\ df_trump' = NoneDf /\ df_pop' = NoneDf /\ df_abbr' = NoneDf
    /\ q1_full' = NoneDf /\ q2_full' = NoneDf
    /\ q6_grants_full' = NoneDf /\ df_pop_full' = NoneDf /\ q6_df' = NoneDf /\ us_avg' = NoneDf
    /\ q3_df' = NoneDf /\ q4_df' = NoneDf /\ filtered_df' = NoneDf
    /\ master' = NoneDf /\ q5_data' = NoneDf
    /\ sel_state' = NaNStr /\ sel_dir' = NaNStr /\ selected_state' = NaNStr
    /\ UNCHANGED <<files, cache>>

Next ==
    \/ LoadData
    \/ StopNoData
    \/ PageHome
    \/ PageQ1
    \/ PageQ2
    \/ PageQ6
    \/ Rerun

Spec == Init /\ [][Next]_vars

----------------------------------------------------------------------------
(* Properties *)

RowsOf(df) == {df.rows[i] : i \in 1..Len(df.rows)}
IndexesOf(df) == 1..Len(df.rows)

RECURSIVE SumInts(_)
SumInts(ns) == IF ns = <<>> THEN 0 ELSE Head(ns) + SumInts(Tail(ns))

\* rollup of one aggregate table keyed by column col
RollupHolds(df, col) ==
    \A z \in RowsOf(df) :
       z.year = 0 =>
          LET parts == SelectSeq(df.rows, LAMBDA r : r[col] = z[col] /\ r.year # 0)
          IN /\ z.total_amount = SumSkipNa(Column(parts, "total_amount"))
             /\ z.grants_count = SumInts(Column(parts, "grants_count"))

\* C1: in the state-grouped and in the directorate-grouped aggregate table, the
\* year=0 row of every entity carries the sum of total_amount and the sum of
\* count of that entity's rows with a non-zero year.
C1_RollupInvariant ==
    /\ ~q1_full.none => RollupHolds(q1_full, "state")
    /\ ~q2_full.none => RollupHolds(q2_full, "directorate")

OneYearZeroRow(df, col) ==
    \A e \in {r[col] : r \in RowsOf(df)} :
       Cardinality({i \in IndexesOf(df) : df.rows[i][col] = e /\ df.rows[i].year = 0}) = 1

\* C2: in every aggregate table year=0 means "all years combined" only: each
\* entity has exactly one year=0 row, the rollup, and no record with a year
\* value of 0 of its own is grouped under year=0.
C2_YearZeroIsRollupOnly ==
    /\ ~q1_full.none =>
          /\ OneYearZeroRow(q1_full, "state")
          /\ \A r \in RowsOf(df_grants) : ~IsNullStr(r.state) => r.year # 0
    /\ ~q2_full.none =>
          /\ OneYearZeroRow(q2_full, "directorate")
          /\ \A r \in RowsOf(df_grants) : ~IsNullStr(r.directorate) => r.year # 0
    /\ ~q6_grants_full.none => OneYearZeroRow(q6_grants_full, "state")

IsIntCell(v) == v.k = "num" /\ v.d = 1

\* C3: loading keeps every row of the grants file and of the cancellations
\* file, and every loaded record of either table has an integer year.
C3_LoadKeepsRowsWithIntYear ==
    (pc = "loaded" /\ ~df_grants.none) =>
       /\ Len(df_grants.rows) = Len(grants_csv.rows)
       /\ Len(df_trump.rows) = Len(trump_csv.rows)
       /\ \A r \in RowsOf(df_grants) : r.year \in Int
       /\ \A r \in RowsOf(df_trump) : IsIntCell(r.year)

\* C4: no per-capita row has a zero, negative or missing population, and no
\* funding_per_capita is the result of a division by zero.
C4_PopulationPositive ==
    ~q6_df.none =>
       \A r \in RowsOf(q6_df) :
          /\ IsNum(r.population) /\ r.population.n > 0
          /\ IsNum(r.funding_per_capita)

PairsOf(rows) == {<<rows[i].state, rows[i].year>> : i \in 1..Len(rows)}

\* C5: the (state, year) pairs of the per-capita table are pairs of the state
\* aggregate table, and an aggregate row without a population row for its
\* (state, year) has no per-capita row while it stays in the aggregate table.
C5_JoinIsInner ==
    ~q6_df.none =>
       LET q1 == Q1Full(df_grants.rows)
       IN /\ PairsOf(q6_df.rows) \subseteq PairsOf(q6_grants_full.rows)
          /\ PairsOf(q6_df.rows) \subseteq PairsOf(q1)
          /\ \A a \in SeqToSet(q1) \cup RowsOf(q6_grants_full) :
                <<a.state, a.year>> \notin PairsOf(df_pop_full.rows)
                   => <<a.state, a.year>> \notin PairsOf(q6_df.rows)

C5_Witness ==
    /\ ~q6_df.none
    /\ q6_df.rows # <<>>
    /\ \E a \in RowsOf(q6_grants_full) :
          /\ <<a.state, a.year>> \notin PairsOf(df_pop_full.rows)
          /\ <<a.state, a.year>> \notin PairsOf(q6_df.rows)
          /\ <<a.state, a.year>> \in PairsOf(Q1Full(df_grants.rows))

\* C6: the per-capita table has at most one row per (state, year), year=0 included.
C6_NoDuplicatePairs ==
    ~q6_df.none =>
       \A i, j \in IndexesOf(q6_df) :
          (q6_df.rows[i].state = q6_df.rows[j].state
             /\ q6_df.rows[i].year = q6_df.rows[j].year) => i = j

\* the per-year population records of a state
YearlyPop(st) ==
    SelectSeq(df_pop_full.rows,
              LAMBDA p : p.state = st /\ Between(p.year, PopYearMin, PopYearMax))

\* C7: the population of every year=0 per-capita row is the arithmetic mean of
\* the state's per-year populations of 2020..2024: population times the number
\* of those records is their sum.
C7_YearZeroPopulationIsMean ==
    ~q6_df.none =>
       \A r \in RowsOf(q6_df) :
          r.year = 0 =>
             /\ IsNum(r.population)
             /\ YearlyPop(r.state) # <<>>
             /\ r.population.n * Len(YearlyPop(r.state))
                  = r.population.d
                      * SumInts([i \in 1..Len(YearlyPop(r.state)) |->
                                   YearlyPop(r.state)[i].population.n])

\* grants of 1000 and 2000, populations 100 and 200: 150 and 20
C7_Witness ==
    /\ ~q6_df.none
    /\ \E r \in RowsOf(q6_df) :
          /\ r.year = 0
          /\ r.total_amount = Num(3000)
          /\ Len(YearlyPop(r.state)) = 2
          /\ {p.population : p \in SeqToSet(YearlyPop(r.state))} = {Num(100), Num(200)}
          /\ r.population = Num(150)
          /\ r.funding_per_capita = Num(20)

\* C8: every per-capita row carries the total_amount of a state aggregate row
\* and the population of a population record of its (state, year), and its
\* funding_per_capita is that total_amount divided by that population.
C8_PerCapitaRowValues ==
    ~q6_df.none =>
       \A r \in RowsOf(q6_df) :
          /\ \E a \in SeqToSet(Q1Full(df_grants.rows)) :
                a.state = r.state /\ a.year = r.year /\ a.total_amount = r.total_amount
          /\ \E p \in RowsOf(df_pop_full) :
                p.state = r.state /\ p.year = r.year /\ p.population = r.population
          /\ IsNum(r.total_amount) /\ IsNum(r.population)
          /\ IF r.population.n > 0
             THEN /\ IsNum(r.funding_per_capita)
                  /\ r.funding_per_capita.n * r.population.n * r.total_amount.d
                       = r.funding_per_capita.d * r.population.d * r.total_amount.n
             ELSE r.funding_per_capita = IF r.total_amount.n = 0 THEN NaN ELSE Inf

\* 1000 over 100 in one year and 2000 over 200 in the other: 10 and 10
C8_Witness ==
    /\ ~q6_df.none
    /\ \E r1, r2 \in RowsOf(q6_df) :
          /\ r1.state = r2.state
          /\ r1.year = 2021 /\ r1.total_amount = Num(1000) /\ r1.population = Num(100)
          /\ r1.funding_per_capita = Num(10)
          /\ r2.year = 2022 /\ r2.total_amount = Num(2000) /\ r2.population = Num(200)
          /\ r2.funding_per_capita = Num(10)

\* the defined (non-NaN) per-capita values of a year
RatiosOf(y) ==
    SelectSeq(Column(SelectSeq(q6_df.rows, LAMBDA r : r.year = y), "funding_per_capita"),
              LAMBDA v : ~IsNull(v))

PopCells ==
    {c \in (1..Len(pop_csv.rows)) \X SeqToSet(pop_csv.pop_cols) :
        /\ pop_csv.rows[c[1]].pop[c[2]].k = "num"
        /\ c[2] >= 2020 /\ c[2] <= 2024}

\* C10 as stated: the loaded population table has exactly one row (state, Y, p)
\* for each input row and each pop_Y column with a numeric p and Y in
\* 2020..2024, and no other row.
C10_OneRowPerCell ==
    (pc = "loaded" /\ ~df_pop.none) =>
       /\ Len(df_pop.rows) = Cardinality(PopCells)
       /\ \A c \in PopCells :
             \E r \in RowsOf(df_pop) :
                /\ r.state_name = pop_csv.rows[c[1]].state
                /\ r.year = c[2]
                /\ r.population = pop_csv.rows[c[1]].pop[c[2]]
       /\ \A r \in RowsOf(df_pop) :
             \E c \in PopCells :
                /\ r.state_name = pop_csv.rows[c[1]].state
                /\ r.year = c[2]
                /\ r.population = pop_csv.rows[c[1]].pop[c[2]]

\* a numeric cell together with a crosswalk row that has the key of its state name
PopMatches ==
    {m \in PopCells \X (1..Len(df_abbr.rows)) :
        /\ Lower(Strip(df_abbr.rows[m[2]].state_name))
             = Lower(Strip(pop_csv.rows[m[1][1]].state))
        /\ ~IsNullStr(df_abbr.rows[m[2]].state)}

PopRowOf(r, m) ==
    /\ r.state_name = pop_csv.rows[m[1][1]].state
    /\ r.year = m[1][2]
    /\ r.population = pop_csv.rows[m[1][1]].pop[m[1][2]]
    /\ r.state = df_abbr.rows[m[2]].state

\* C10 amended: the loaded population table has exactly one row (code, Y, p)
\* for each input row, each pop_Y column with a numeric p and Y in 2020..2024,
\* and each crosswalk row whose trimmed, lowercased name equals the trimmed,
\* lowercased state name of the input row; a state name without such a
\* crosswalk row produces no row, and no other row is produced.
C10_OneRowPerResolvedCell ==
    (pc = "loaded" /\ ~df_pop.none) =>
       /\ Len(df_pop.rows) = Cardinality(PopMatches)
       /\ \A m \in PopMatches : \E r \in RowsOf(df_pop) : PopRowOf(r, m)
       /\ \A r \in RowsOf(df_pop) : \E m \in PopMatches : PopRowOf(r, m)

\* a load that kept a row, dropped a non-numeric cell and dropped an unresolved name
C10_Witness ==
    /\ pc = "loaded" /\ ~df_pop.none
    /\ df_pop.rows # <<>>
    /\ \E i \in 1..Len(pop_csv.rows) : pop_csv.rows[i].pop[2021].k = "text"
    /\ \E c \in PopCells : \A m \in PopMatches : m[1] # c
    /\ \E i \in 1..Len(pop_csv.rows) : pop_csv.rows[i].pop[2019].k = "num"

----------------------------------------------------------------------------
(* Crosswalk properties *)

HasName(h) == Contains(<<"n","a","m","e">>, Lower(h))
HasAbbrOrCode(h) ==
    Contains(<<"a","b","b","r">>, Lower(h)) \/ Contains(<<"c","o","d","e">>, Lower(h))

\* the (name column, code column) pairs the headers of a crosswalk file allow
ResolvablePairs(cols) ==
    {c \in (1..Len(cols)) \X (1..Len(cols)) :
        c[1] # c[2] /\ HasName(cols[c[1]]) /\ HasAbbrOrCode(cols[c[2]])}

\* C11: wherever the crosswalk is loaded (load_data, page Q6), the name column
\* is a column whose header contains "name" and the code column a different
\* column whose header contains "abbr" or "code", and the load fails only when
\* the headers allow no such pair.
C11_ColumnResolution ==
    /\ (pc = "loaded" /\ ~df_abbr.none) =>
          \E c \in ResolvablePairs(abbr_csv.columns) :
             \A i \in 1..Len(abbr_csv.rows) :
                /\ df_abbr.rows[i].state_name = abbr_csv.rows[i][c[1]]
                /\ df_abbr.rows[i].state = abbr_csv.rows[i][c[2]]
    /\ (page = "Q6" /\ pc = "done") => ResolvablePairs(abbr_csv.columns) # {}
    /\ (pc = "crashed" /\ abbr_csv.present) => ResolvablePairs(abbr_csv.columns) = {}

NameKey(name) == Lower(Strip(name))

\* the codes the crosswalk rows xw give for a state name
CodesOf(name, xw) ==
    {xw[j].state : j \in {k \in 1..Len(xw) :
                            /\ NameKey(xw[k].state_name) = NameKey(name)
                            /\ ~IsNullStr(xw[k].state)}}

\* the years of the population file with a number for row i, within 2020..2024
NumericYears(i) ==
    {y \in SeqToSet(pop_csv.pop_cols) :
        /\ Between(y, PopYearMin, PopYearMax)
        /\ pop_csv.rows[i].pop[y].k = "num"}

\* the headers resolve in load_data and on page Q6 alike
PlainHeaders(cols) ==
    \E c \in ResolvablePairs(cols) : Contains(<<"a","b","b","r">>, Lower(cols[c[2]]))

\* C12: a population row whose state name is absent from the crosswalk is
\* dropped without an error, in load_data and on page Q6, and every other row
\* keeps a resolved row for each of its numeric populations of 2020..2024.
C12_UnmatchedNameDropped ==
    /\ (pc = "loaded" /\ ~df_pop.none) =>
          \A i \in 1..Len(pop_csv.rows) :
             LET name == pop_csv.rows[i].state
             IN IF CodesOf(name, df_abbr.rows) = {}
                THEN \A r \in RowsOf(df_pop) : r.state_name # name
                ELSE \A y \in NumericYears(i) :
                        \E r \in RowsOf(df_pop) :
                           /\ r.state_name = name /\ r.year = y
                           /\ r.population = pop_csv.rows[i].pop[y]
                           /\ r.state \in CodesOf(name, df_abbr.rows)
    /\ (page = "Q6" /\ pc = "done") =>
          LET xw == Q6Abbr(abbr_csv)
              resolved == {i \in 1..Len(pop_csv.rows) : CodesOf(pop_csv.rows[i].state, xw) # {}}
          IN /\ \A i \in resolved : \A y \in NumericYears(i) :
                   \E r \in RowsOf(df_pop_full) :
                      /\ r.year = y /\ r.population = pop_csv.rows[i].pop[y]
                      /\ r.state \in CodesOf(pop_csv.rows[i].state, xw)
             /\ \A r \in RowsOf(df_pop_full) :
                   r.year # 0 =>
                      \E i \in resolved :
                         /\ r.year \in NumericYears(i)
                         /\ r.population = pop_csv.rows[i].pop[r.year]
                         /\ r.state \in CodesOf(pop_csv.rows[i].state, xw)
    /\ (abbr_csv.present /\ PlainHeaders(abbr_csv.columns)) => pc # "crashed"

\* a file with a resolved row and an Atlantis row, loaded and shown on page Q6
C12_Witness ==
    /\ page = "Q6" /\ pc = "done" /\ ~df_pop.none
    /\ \E i, j \in 1..Len(pop_csv.rows) :
          /\ pop_csv.rows[i].state = Atlantis /\ NumericYears(i) # {}
          /\ CodesOf(Atlantis, df_abbr.rows) = {}
          /\ CodesOf(pop_csv.rows[j].state, df_abbr.rows) # {} /\ NumericYears(j) # {}
    /\ df_pop.rows # <<>> /\ df_pop_full.rows # <<>>
    /\ \A r \in RowsOf(df_pop) : r.state_name # Atlantis

\* the codes load_data attached to the rows of a state name in a year
LoadedCodes(name, y) ==
    {r.state : r \in {x \in RowsOf(df_pop) : x.state_name = name /\ x.year = y}}

\* C13: resolution depends on the trimmed, lowercased name only: two state
\* names with the same key get the same codes, in load_data and on page Q6,
\* and the key of a resolved row is its own key (resolving it again changes
\* nothing).
C13_ResolutionByKey ==
    /\ (pc = "loaded" /\ ~df_pop.none) =>
          /\ \A i, j \in 1..Len(pop_csv.rows) :
                NameKey(pop_csv.rows[i].state) = NameKey(pop_csv.rows[j].state) =>
                   \A y \in NumericYears(i) \cap NumericYears(j) :
                      LoadedCodes(pop_csv.rows[i].state, y)
                         = LoadedCodes(pop_csv.rows[j].state, y)
          /\ \A r \in RowsOf(df_pop) :
                /\ r.state_name_key = NameKey(r.state_name)
                /\ NameKey(r.state_name_key) = r.state_name_key
                /\ CodesOf(r.state_name_key, df_abbr.rows) = CodesOf(r.state_name, df_abbr.rows)
    /\ (page = "Q6" /\ pc = "done") =>
          \A i, j \in 1..Len(pop_csv.rows) :
             NameKey(pop_csv.rows[i].state) = NameKey(pop_csv.rows[j].state) =>
                \A y \in NumericYears(i) \cap NumericYears(j) :
                   \A c \in CodesOf(pop_csv.rows[i].state, Q6Abbr(abbr_csv)) :
                      /\ \E r \in RowsOf(df_pop_full) :
                            /\ r.state = c /\ r.year = y
                            /\ r.population = pop_csv.rows[i].pop[y]
                      /\ \E r \in RowsOf(df_pop_full) :
                            /\ r.state = c /\ r.year = y
                            /\ r.population = pop_csv.rows[j].pop[y]

\* "Ohio" and " ohio " in one file, both resolved to OH
C13_Witness ==
    /\ pc = "loaded" /\ ~df_pop.none
    /\ \E i, j \in 1..Len(pop_csv.rows) :
          /\ pop_csv.rows[i].state = Ohio /\ pop_csv.rows[j].state = OhioPadded
          /\ 2021 \in NumericYears(i) \cap NumericYears(j)
          /\ LoadedCodes(Ohio, 2021) = {OH}
          /\ LoadedCodes(OhioPadded, 2021) = {OH}

IsUpperLetter(c) == \E i \in 1..26 : UpperLetters[i] = c

\* exactly 2 uppercase letters
IsCode(s) == Len(s) = 2 /\ IsUpperLetter(s[1]) /\ IsUpperLetter(s[2])

\* C14: in the crosswalk load_data returns, and in the codes page Q6 attaches
\* to the population rows, every code is exactly 2 uppercase letters and every
\* name key (the name lowercased and trimmed) has exactly one code.
C14_CrosswalkInvariant ==
    /\ (pc = "loaded" /\ ~df_abbr.none) =>
          /\ \A a \in RowsOf(df_abbr) : IsCode(a.state)
          /\ \A a, b \in RowsOf(df_abbr) :
                NameKey(a.state_name) = NameKey(b.state_name) => a.state = b.state
    /\ (page = "Q6" /\ pc = "done") =>
          \A r \in RowsOf(df_pop_full) : IsCode(r.state)

\* the codes of the loaded crosswalk
CrosswalkCodes == {a.state : a \in RowsOf(df_abbr)}

\* C15: no row of a state-keyed aggregate table, per-year or year=0, is keyed
\* by a state that is not in the crosswalk, and a grant with such a state
\* does not make the script fail.
C15_UnmatchedGrantExcluded ==
    /\ ~q1_full.none => \A r \in RowsOf(q1_full) : r.state \in CrosswalkCodes
    /\ ~q6_grants_full.none => \A r \in RowsOf(q6_grants_full) : r.state \in CrosswalkCodes
    /\ (\E g \in SeqToSet(grants_csv.rows) : g.state = Atlantis) =>
          (pc = "crashed" => ~PlainHeaders(abbr_csv.columns))

\* the reshaped population rows of 2020..2024 that load_data drops: the
\* population is not a number, or the state name has no code
DroppedPopCells ==
    {c \in (1..Len(pop_csv.rows)) \X SeqToSet(pop_csv.pop_cols) :
        /\ Between(c[2], PopYearMin, PopYearMax)
        /\ \/ pop_csv.rows[c[1]].pop[c[2]].k # "num"
           \/ CodesOf(pop_csv.rows[c[1]].state, df_abbr.rows) = {}}

\* the grants whose state is not a code of the crosswalk
UnmatchedGrants ==
    {i \in 1..Len(df_grants.rows) : df_grants.rows[i].state \notin CrosswalkCodes}

\* C16: every load publishes, with its tables, a quality report whose counts
\* are the number of population rows dropped and the number of records with
\* an unmatched state of that load.
C16_QualityReportCounts ==
    (pc = "loaded" /\ ~df_grants.none) =>
       /\ "quality_report" \in DOMAIN cache.value
       /\ cache.value.quality_report.dropped_rows = Cardinality(DroppedPopCells)
       /\ cache.value.quality_report.unmatched_rows = Cardinality(UnmatchedGrants)

----------------------------------------------------------------------------
(* The files change while the app is running *)

\* two complete releases of the four files
Release1 == <<ExampleGrants, DefaultTrump, ExamplePop, ExampleAbbr>>
Release2 ==
    << File(<<Grant(OH, BIO, Num(2021), Num(1000)), Grant(OH, BIO, Num(2022), Num(2000))>>),
       File(<<TrumpRowDom[3]>>),
       PopFile(<<PopRow(Ohio, Num(50), Num(100), Num(200))>>),
       DefaultAbbr >>

\* a release with one of its files removed
WithMissing(rel, k) ==
    << IF k = 1 THEN MissingFile ELSE rel[1],
       IF k = 2 THEN MissingFile ELSE rel[2],
       IF k = 3 THEN MissingPopFile ELSE rel[3],
       IF k = 4 THEN MissingAbbrFile ELSE rel[4] >>

\* a release whose crosswalk has the code column headed "Code"
WithCodeHeader(rel) == <<rel[1], rel[2], rel[3], AbbrFile(<<HName, HCode>>, rel[4].rows)>>

\* the contents the directory of the app goes through
FileVersions ==
    {Release1, Release2, WithCodeHeader(Release1)}
       \cup {WithMissing(Release1, k) : k \in 1..4}
       \cup {WithMissing(Release2, k) : k \in 1..4}

InitRefresh ==
    /\ \E v \in FileVersions :
          /\ grants_csv = v[1]
          /\ trump_csv = v[2]
          /\ pop_csv = v[3]
          /\ abbr_csv = v[4]
    /\ cache = EmptyCache
    /\ pc = "start"
    /\ page = "none"
    /\ df_grants = NoneDf /\ df_trump = NoneDf /\ df_pop = NoneDf /\ df_abbr = NoneDf
    /\ q1_full = NoneDf /\ q2_full = NoneDf
    /\ q6_grants_full = NoneDf /\ df_pop_full = NoneDf /\ q6_df = NoneDf /\ us_avg = NoneDf
    /\ q3_df = NoneDf /\ q4_df = NoneDf /\ filtered_df = NoneDf
    /\ master = NoneDf /\ q5_data = NoneDf
    /\ sel_state = NaNStr /\ sel_dir = NaNStr /\ selected_state = NaNStr

\* the files are replaced on disk, at any point of a run or between runs;
\* neither the cache nor the running script is told
ChangeFiles ==
    /\ \E v \in FileVersions \ {files} :
          /\ grants_csv' = v[1]
          /\ trump_csv' = v[2]
          /\ pop_csv' = v[3]
          /\ abbr_csv' = v[4]
    /\ UNCHANGED <<cache, pc, page, loaded, tables, views>>

NextRefresh ==
    \/ Next
    \/ ChangeFiles

SpecRefresh == InitRefresh /\ [][NextRefresh]_vars

AnyMissing ==
    ~(grants_csv.present /\ trump_csv.present /\ pop_csv.present /\ abbr_csv.present)

NoTables ==
    /\ q1_full.none /\ q2_full.none
    /\ q6_grants_full.none /\ df_pop_full.none /\ q6_df.none /\ us_avg.none

CompleteVersions ==
    {v \in FileVersions :
        /\ v[1].present /\ v[2].present /\ v[3].present /\ v[4].present
        /\ ~Q6AbbrRaises(v[4])}

\* C18: the tables a page shows together come from one version of the files:
\* on page Q6 the state aggregate table and the population table, which are
\* joined into the per-capita table, are those of one and the same version.
C18_TablesFromOneRefresh ==
    (page = "Q6" /\ pc = "done") =>
       \E v \in CompleteVersions :
          /\ q6_grants_full = Df(Q6GrantsFull(CoerceYear(v[1].rows)))
          /\ df_pop_full = Df(PopFull(Q6PopLong(v[3], v[4])))
          /\ q6_df = Df(Q6Df(MergePerCapita(q6_grants_full.rows, df_pop_full.rows)))

\* the table set load_data has published through its cache: four None before
\* the first load and after a load that found a file missing
PublishedSet(c) ==
    IF c.filled
    THEN <<c.value.df_grants, c.value.df_trump, c.value.df_pop, c.value.df_abbr>>
    ELSE <<NoneDf, NoneDf, NoneDf, NoneDf>>

NoData == <<NoneDf, NoneDf, NoneDf, NoneDf>>

IsCompleteSet(s) == ~s[1].none /\ ~s[2].none /\ ~s[3].none /\ ~s[4].none

CachedPopLong ==
    [i \in 1..Len(cache.value.df_pop.rows) |->
       [state |-> cache.value.df_pop.rows[i].state,
        year |-> cache.value.df_pop.rows[i].year,
        population |-> cache.value.df_pop.rows[i].population]]

\* C20: rendering a page reads and computes from the one cached load only:
\* between two loads the tables of a page are those of the cached load,
\* whatever has become of the files, and a render never fails on a file.
C20_RenderUsesCachedLoadOnly ==
    /\ (page = "Q1" /\ pc = "done") => q1_full = Df(Q1Full(cache.value.df_grants.rows))
    /\ (page = "Q2" /\ pc = "done") => q2_full = Df(Q2Full(cache.value.df_grants.rows))
    /\ (page = "Q6" /\ pc = "done") =>
          /\ q6_grants_full = Df(Q6GrantsFull(cache.value.df_grants.rows))
          /\ df_pop_full = Df(PopFull(CachedPopLong))
    /\ (page = "Q6" /\ cache.filled /\ cache.value.status = "ok") => pc = "done"

----------------------------------------------------------------------------
(* Q3: cancellations by directorate (lines 393-404, 908-920) *)

\* lines 393-397: df_grants.groupby(["directorate"]).agg(base_count=("award_id", "count"))
Q3Base(grants) ==
    LET keyed == SelectSeq(grants, LAMBDA r : ~IsNullStr(r.directorate))
        keys == SortStr({r.directorate : r \in SeqToSet(keyed)})
    IN [i \in 1..Len(keys) |->
          [directorate |-> keys[i],
           base_count |->
               CountNonNull(Column(SelectSeq(keyed, LAMBDA r : r.directorate = keys[i]),
                                   "award_id"))]]

\* lines 398-402
Q3Cancel(trump) ==
    LET keyed == SelectSeq(trump, LAMBDA r : ~IsNullStr(r.directorate))
        keys == SortStr({r.directorate : r \in SeqToSet(keyed)})
    IN [i \in 1..Len(keys) |->
          LET g == SelectSeq(keyed, LAMBDA r : r.directorate = keys[i])
          IN [directorate |-> keys[i],
              cancel_count |-> CountNonNull(Column(g, "award_id")),
              lost_amt |-> SumSkipNa(Column(g, "award_amount"))]]

\* Q3Df with the rate divided by base_count as it is
Q3Df_NoReplace(grants, trump) ==
    LET base == Q3Base(grants)
        cancel == Q3Cancel(trump)
        keys == SortStr({r.directorate : r \in SeqToSet(base)}
                           \cup {r.directorate : r \in SeqToSet(cancel)})
    IN [i \in 1..Len(keys) |->
          LET b == SelectSeq(base, LAMBDA r : r.directorate = keys[i])
              c == SelectSeq(cancel, LAMBDA r : r.directorate = keys[i])
              bc == IF b = <<>> THEN 0 ELSE b[1].base_count
              cc == IF c = <<>> THEN 0 ELSE c[1].cancel_count
          IN [directorate |-> keys[i], base_count |-> bc, cancel_count |-> cc,
              lost_amt |-> IF c = <<>> THEN Num(0) ELSE c[1].lost_amt,
              rate |-> Div(Num(cc), Num(bc))]]

\* lines 403-404: outer merge on directorate, fillna(0), and
\* rate = cancel_count / base_count.replace(0, 1)
Q3Df(grants, trump) ==
    LET base == Q3Base(grants)
        cancel == Q3Cancel(trump)
        keys == SortStr({r.directorate : r \in SeqToSet(base)}
                           \cup {r.directorate : r \in SeqToSet(cancel)})
    IN [i \in 1..Len(keys) |->
          LET b == SelectSeq(base, LAMBDA r : r.directorate = keys[i])
              c == SelectSeq(cancel, LAMBDA r : r.directorate = keys[i])
              bc == IF b = <<>> THEN 0 ELSE b[1].base_count
              cc == IF c = <<>> THEN 0 ELSE c[1].cancel_count
          IN [directorate |-> keys[i], base_count |-> bc, cancel_count |-> cc,
              lost_amt |-> IF c = <<>> THEN Num(0) ELSE c[1].lost_amt,
              rate |-> Div(Num(cc), Num(IF bc = 0 THEN 1 ELSE bc))]]

----------------------------------------------------------------------------
(* Q4: funding by (year, state, directorate) (lines 477-500, 923-927, 1207-1221) *)

\* keys <<year, state, directorate>> in lexicographic order
TripleLess(a, b) ==
    \/ a[1] < b[1]
    \/ a[1] = b[1] /\ StrLess(a[2], b[2])
    \/ a[1] = b[1] /\ a[2] = b[2] /\ StrLess(a[3], b[3])

RECURSIVE SortTriple(_)
SortTriple(S) ==
    IF S = {} THEN <<>>
    ELSE LET m == CHOOSE x \in S : \A y \in S \ {x} : TripleLess(x, y)
         IN <<m>> \o SortTriple(S \ {m})

\* lines 477-481: groupby(["year", "state", "directorate"]); a row with a null
\* state or a null directorate is in no group
Q4Df(grants) ==
    LET keyed == SelectSeq(grants, LAMBDA r : ~IsNullStr(r.state) /\ ~IsNullStr(r.directorate))
        keys == SortTriple({<<r.year, r.state, r.directorate>> : r \in SeqToSet(keyed)})
    IN [i \in 1..Len(keys) |->
          LET g == SelectSeq(keyed, LAMBDA r : /\ r.year = keys[i][1]
                                                /\ r.state = keys[i][2]
                                                /\ r.directorate = keys[i][3])
          IN [year |-> keys[i][1], state |-> keys[i][2], directorate |-> keys[i][3],
              total_amount |-> SumSkipNa(Column(g, "award_amount")),
              grants_count |-> CountNonNull(Column(g, "award_id"))]]

AllOpt == <<"A","l","l">>

\* lines 487-492: ["All"] + sorted(q4_df[col].unique())
Q4Options(q4, col) == <<AllOpt>> \o SortStr({r[col] : r \in SeqToSet(q4)})

\* Q4Filter with the directorate filter left out
Q4Filter_StateOnly(q4, st, dir) ==
    IF st # AllOpt THEN SelectSeq(q4, LAMBDA r : r.state = st) ELSE q4

\* lines 495-500: each filter is applied unless its value is "All"
Q4Filter(q4, st, dir) ==
    LET by_state == IF st # AllOpt THEN SelectSeq(q4, LAMBDA r : r.state = st) ELSE q4
    IN IF dir # AllOpt THEN SelectSeq(by_state, LAMBDA r : r.directorate = dir) ELSE by_state

----------------------------------------------------------------------------
(* Q5: timeline of one state (lines 557-581, 876-878, 929-949, 1255-1278) *)

Q5YearMin == 2017
Q5YearMax == 2024
Q5DefaultIndex == 4

\* sorted(df[col].unique()) raises TypeError when the column holds both text
\* and NaN, a float
SortedRaises(df, col) ==
    /\ \E r \in SeqToSet(df) : IsNullStr(r[col])
    /\ \E r \in SeqToSet(df) : ~IsNullStr(r[col])

\* sorted(df[col].unique()) when it does not raise
SortedUnique(df, col) ==
    IF \E r \in SeqToSet(df) : IsNullStr(r[col])
    THEN <<NaNStr>>
    ELSE SortStr({r[col] : r \in SeqToSet(df)})

\* st.selectbox(..., options, index=4) raises when the index is not a position
\* of the non-empty options
SelectboxRaises(options) == options # <<>> /\ Q5DefaultIndex >= Len(options)

\* the values the select box can return: any option, None without options
SelectboxValues(options) == IF options = <<>> THEN {NaNStr} ELSE SeqToSet(options)

\* df[df["state"] == sel].groupby("year"): the years of the rows of the state
\* (NaN and None equal no cell)
YearsOfState(df, sel) ==
    IF IsNullStr(sel) THEN {}
    ELSE {r.year : r \in {x \in SeqToSet(df) : x.state = sel}}

\* a cancellations file with a non-numeric year has a text year column, and
\* merging it on the integer year of the timeline raises ValueError unless
\* one side has no row
TextYearColumn(trump) == \E r \in SeqToSet(trump) : r.year.k = "text"

MasterRaises(trump, sel) == TextYearColumn(trump) /\ YearsOfState(trump, sel) # {}

\* lines 562-581: one row per year of 2017..2024, zeros where the state has no
\* record of the year
Master(grants, trump, sel) ==
    [i \in 1..(Q5YearMax - Q5YearMin + 1) |->
       LET y == Q5YearMin + i - 1
           g == IF IsNullStr(sel) THEN <<>>
                ELSE SelectSeq(grants, LAMBDA r : r.state = sel /\ r.year = y)
           c == IF IsNullStr(sel) THEN <<>>
                ELSE SelectSeq(trump, LAMBDA r : r.state = sel /\ r.year = Num(y))
       IN [year |-> y,
           g_cnt |-> CountNonNull(Column(g, "award_id")),
           g_amt |-> SumSkipNa(Column(g, "award_amount")),
           c_cnt |-> CountNonNull(Column(c, "award_id")),
           c_amt |-> SumSkipNa(Column(c, "award_amount"))]]

Q5DataRaises(grants, trump) ==
    /\ grants # <<>>
    /\ TextYearColumn(trump)
    /\ \E r \in SeqToSet(trump) : ~IsNullStr(r.state)

\* lines 929-949: itertools.product(all_states, range(2017, 2025)) left-merged
\* with the sums by (state, year), fillna(0)
Q5Data(grants, trump) ==
    LET all_states == SortedUnique(grants, "state")
        n == Q5YearMax - Q5YearMin + 1
    IN [i \in 1..(Len(all_states) * n) |->
          LET st == all_states[((i - 1) \div n) + 1]
              y == Q5YearMin + ((i - 1) % n)
              g == IF IsNullStr(st) THEN <<>>
                   ELSE SelectSeq(grants, LAMBDA r : r.state = st /\ r.year = y)
              c == IF IsNullStr(st) THEN <<>>
                   ELSE SelectSeq(trump, LAMBDA r : r.state = st /\ r.year = Num(y))
          IN [state |-> st, year |-> y,
              fund |-> SumSkipNa(Column(g, "award_amount")),
              lost |-> SumSkipNa(Column(c, "award_amount"))]]

----------------------------------------------------------------------------
(* The other pages of the script *)

\* lines 386-404
PageQ3 ==
    /\ pc = "loaded"
    /\ ~df_grants.none
    /\ page' = "Q3"
    /\ q3_df' = Df(Q3Df(df_grants.rows, df_trump.rows))
    /\ pc' = "done"
    /\ UNCHANGED <<files, cache, loaded, tables,
                   q4_df, sel_state, sel_dir, filtered_df, selected_state, master, q5_data>>

\* lines 474-500: the user sets the two select boxes to any of their options
PageQ4 ==
    /\ pc = "loaded"
    /\ ~df_grants.none
    /\ page' = "Q4"
    /\ LET q4 == Q4Df(df_grants.rows)
       IN /\ q4_df' = Df(q4)
          /\ \E st \in SeqToSet(Q4Options(q4, "state")) :
             \E dir \in SeqToSet(Q4Options(q4, "directorate")) :
                /\ sel_state' = st
                /\ sel_dir' = dir
                /\ filtered_df' = Df(Q4Filter(q4, st, dir))
    /\ pc' = "done"
    /\ UNCHANGED <<files, cache, loaded, tables, q3_df, selected_state, master, q5_data>>

\* lines 550-581: the select box raises with fewer than five states, sorted()
\* with a missing state, the merge with a text year column
PageQ5 ==
    /\ pc = "loaded"
    /\ ~df_grants.none
    /\ page' = "Q5"
    /\ IF \/ SortedRaises(df_grants.rows, "state")
          \/ SelectboxRaises(SortedUnique(df_grants.rows, "state"))
       THEN /\ pc' = "crashed"
            /\ UNCHANGED <<selected_state, master>>
       ELSE \E sel \in SelectboxValues(SortedUnique(df_grants.rows, "state")) :
               /\ selected_state' = sel
               /\ IF MasterRaises(df_trump.rows, sel)
                  THEN pc' = "crashed" /\ UNCHANGED master
                  ELSE /\ master' = Df(Master(df_grants.rows, df_trump.rows, sel))
                       /\ pc' = "done"
    /\ UNCHANGED <<files, cache, loaded, tables, q3_df, q4_df, sel_state, sel_dir,
                   filtered_df, q5_data>>

\* lines 871-1278: the preparation of every table, then the Q4 filters and the
\* Q5 timeline; an exception ends the run with the tables built so far
PageDashboard ==
    /\ pc = "loaded"
    /\ ~df_grants.none
    /\ page' = "Dashboard"
    /\ LET g == df_grants.rows
           t == df_trump.rows
           stop1 == SortedRaises(g, "state") \/ SortedRaises(g, "directorate")
           stop2 == stop1 \/ Q5DataRaises(g, t)
           stop3 == \/ stop2
                    \/ ~pop_csv.present \/ ~abbr_csv.present \/ Q6AbbrRaises(abbr_csv)
           stop4 == stop3 \/ SelectboxRaises(SortedUnique(g, "state"))
           q4 == Q4Df(g)
       IN /\ q1_full' = IF stop1 THEN q1_full ELSE Df(Q1Full(g))
          /\ q2_full' = IF stop1 THEN q2_full ELSE Df(Q2Full(g))
          /\ q3_df' = IF stop1 THEN q3_df ELSE Df(Q3Df(g, t))
          /\ q4_df' = IF stop1 THEN q4_df ELSE Df(q4)
          /\ q5_data' = IF stop2 THEN q5_data ELSE Df(Q5Data(g, t))
          /\ IF stop3
             THEN UNCHANGED <<q6_grants_full, df_pop_full, q6_df, us_avg,
                              sel_state, sel_dir, filtered_df>>
             ELSE LET pop_long == Q6PopLong(pop_csv, abbr_csv)
                      grants_full == Q6GrantsFull(g)
                      per_capita == MergePerCapita(grants_full, PopFull(pop_long))
                  IN /\ q6_grants_full' = Df(grants_full)
                     /\ df_pop_full' = Df(PopFull(pop_long))
                     /\ q6_df' = Df(Q6Df(per_capita))
                     /\ us_avg' = Df(UsAvg(per_capita))
                     /\ \E st \in SeqToSet(Q4Options(q4, "state")) :
                        \E dir \in SeqToSet(Q4Options(q4, "directorate")) :
                           /\ sel_state' = st
                           /\ sel_dir' = dir
                           /\ filtered_df' = Df(Q4Filter(q4, st, dir))
          /\ IF stop4
             THEN pc' = "crashed" /\ UNCHANGED <<selected_state, master>>
             ELSE \E sel \in SelectboxValues(SortedUnique(g, "state")) :
                     /\ selected_state' = sel
                     /\ IF MasterRaises(t, sel)
                        THEN pc' = "crashed" /\ UNCHANGED master
                        ELSE /\ master' = Df(Master(g, t, sel))
                             /\ pc' = "done"
    /\ UNCHANGED <<files, cache, loaded>>

\* a grants file with five states, so that the Q5 select box has its default
FiveStateGrants ==
    File(<<Grant(OH, BIO, Num(2021), Num(1000)), Grant(UT, GEO, Num(2021), Num(2000)),
           Grant(IA, BIO, Num(2022), Num(1000)), Grant(<<"C","A">>, BIO, Num(2021), Num(1000)),
           Grant(<<"T","X">>, GEO, Num(2020), Num(2000)),
           Grant(OH, GEO, Num(2020), Num(2000))>>)

\* the file contents the pages are checked on
InitPagesFiles ==
    \/ /\ grants_csv \in {File(t) : t \in SortedTables(GrantRowDom, MaxGrants)}
       /\ trump_csv = DefaultTrump
       /\ pop_csv = PopFile(<<PopRow(Ohio, Num(50), Num(100), Num(200))>>)
       /\ abbr_csv = DefaultAbbr
    \/ /\ grants_csv \in GrantsSmall
       /\ trump_csv \in {File(t) : t \in SortedTables(TrumpRowDom, MaxTrump)}
       /\ pop_csv = PopFile(<<PopRow(Ohio, Num(50), Num(100), Num(200))>>)
       /\ abbr_csv = DefaultAbbr
    \/ /\ grants_csv = FiveStateGrants
       /\ trump_csv \in {File(<<TrumpRowDom[1], TrumpRowDom[3]>>),
                         File(<<TrumpRowDom[2], Grant(<<"T","X">>, GEO, Num(2020), Num(2000))>>)}
       /\ pop_csv = PopFile(<<PopRow(Ohio, Num(50), Num(100), Num(200))>>)
       /\ abbr_csv = DefaultAbbr
    \/ /\ grants_csv = MissingFile
       /\ trump_csv = DefaultTrump
       /\ pop_csv = PopFile(<<PopRow(Ohio, Num(50), Num(100), Num(200))>>)
       /\ abbr_csv = DefaultAbbr

InitPages ==
    /\ InitPagesFiles
    /\ cache = EmptyCache
    /\ pc = "start"
    /\ page = "none"
    /\ df_grants = NoneDf /\ df_trump = NoneDf /\ df_pop = NoneDf /\ df_abbr = NoneDf
    /\ q1_full = NoneDf /\ q2_full = NoneDf
    /\ q6_grants_full = NoneDf /\ df_pop_full = NoneDf /\ q6_df = NoneDf /\ us_avg = NoneDf
    /\ q3_df = NoneDf /\ q4_df = NoneDf /\ filtered_df = NoneDf
    /\ master = NoneDf /\ q5_data = NoneDf
    /\ sel_state = NaNStr /\ sel_dir = NaNStr /\ selected_state = NaNStr

NextPages ==
    \/ Next
    \/ PageQ3
    \/ PageQ4
    \/ PageQ5
    \/ PageDashboard

SpecPages == InitPages /\ [][NextPages]_vars

----------------------------------------------------------------------------
(* Properties of the pages *)

\* C21: rendering a page, in any sequence of renders, leaves the loaded
\* grants, cancellations, population and crosswalk tables and the cached load
\* as they were: a page filters and re-types copies.
C21_PagesLeaveLoadedTables ==
    [][/\ (pc = "loaded" /\ pc' \in {"done", "crashed"}) => loaded' = loaded
       /\ cache.filled => cache' = cache
       /\ (pc' = "loaded" /\ cache.filled) => loaded' = PublishedSet(cache)]_vars

\* page Q6 has left out of its aggregation a grant without amount or state,
\* and the grant is still in the loaded table
C21_Witness ==
    /\ page = "Q6" /\ pc = "done"
    /\ loaded = PublishedSet(cache)
    /\ \E r \in RowsOf(df_grants) : IsNull(r.award_amount) \/ IsNullStr(r.state)
    /\ Len(df_grants.rows) = Len(grants_csv.rows)
    /\ \A a \in RowsOf(q6_grants_full) : a.year = 0 => a.grants_count < Len(df_grants.rows)
    /\ q6_grants_full.rows # <<>>

\* C22: the filtered table of the funding-evolution view is the three-way
\* table itself when both filters are "All", and otherwise exactly the rows,
\* unchanged and in order, whose state and directorate equal the chosen values.
C22_FilterSelectsMatchingRows ==
    ~filtered_df.none =>
        /\ filtered_df.rows =
               SelectSeq(q4_df.rows,
                         LAMBDA r : /\ sel_state = AllOpt \/ r.state = sel_state
                                    /\ sel_dir = AllOpt \/ r.directorate = sel_dir)
        /\ (sel_state = AllOpt /\ sel_dir = AllOpt) => filtered_df = q4_df

\* both filters are set, and the state chosen has a row of another directorate
C22_Witness ==
    /\ page \in {"Q4", "Dashboard"}
    /\ ~filtered_df.none
    /\ sel_state # AllOpt /\ sel_dir # AllOpt
    /\ filtered_df.rows # <<>>
    /\ \E r \in RowsOf(q4_df) : r.state = sel_state /\ r.directorate # sel_dir
    /\ \E r \in RowsOf(q4_df) : r.state # sel_state

\* a grant or a cancellation of the state and the year
HasRecord(st, y) ==
    \/ \E g \in RowsOf(df_grants) : g.state = st /\ g.year = y
    \/ \E c \in RowsOf(df_trump) : c.state = st /\ c.year = Num(y)

\* every row of an aggregate table keyed by col has a grant of its entity, and
\* of its year unless the year is 0
RowsHaveRecords(df, col) ==
    \A r \in RowsOf(df) :
       \E g \in RowsOf(df_grants) : g[col] = r[col] /\ (r.year = 0 \/ g.year = r.year)

\* C23: no aggregate table has a fabricated row: every row of the state and
\* directorate aggregates, of the three-way table, of the state timeline and
\* of the dashboard's (state, year) table stands for at least one input record
\* of its entity and year.
C23_NoFabricatedRows ==
    /\ ~q1_full.none => RowsHaveRecords(q1_full, "state")
    /\ ~q2_full.none => RowsHaveRecords(q2_full, "directorate")
    /\ ~q4_df.none =>
          \A r \in RowsOf(q4_df) :
             \E g \in RowsOf(df_grants) :
                g.state = r.state /\ g.directorate = r.directorate /\ g.year = r.year
    /\ ~master.none => \A r \in RowsOf(master) : HasRecord(selected_state, r.year)
    /\ ~q5_data.none => \A r \in RowsOf(q5_data) : HasRecord(r.state, r.year)

\* the grants whose column col holds e, of year y unless y is 0 and all is set
RecordsOf(col, e, y, all) ==
    SelectSeq(df_grants.rows, LAMBDA g : g[col] = e /\ (all \/ g.year = y))

\* the table is one row per (entity, year) that has a record, followed by one
\* year=0 row per entity, each counting and summing the records of its group
GroupsByExactKey(df, col) ==
    LET keyed == {g \in RowsOf(df_grants) : ~IsNullStr(g[col])}
        pairs == {<<g[col], g.year>> : g \in keyed}
        ents == {g[col] : g \in keyed}
        k == Cardinality(pairs)
        row(i) == df.rows[i]
    IN /\ Len(df.rows) = k + Cardinality(ents)
       /\ {<<row(i)[col], row(i).year>> : i \in 1..k} = pairs
       /\ {row(i)[col] : i \in (k + 1)..Len(df.rows)} = ents
       /\ \A i \in 1..Len(df.rows) :
             LET recs == RecordsOf(col, row(i)[col], row(i).year, i > k)
             IN /\ i > k => row(i).year = 0
                /\ row(i).grants_count = Len(recs)
                /\ row(i).total_amount = SumSkipNa(Column(recs, "award_amount"))

\* C24: the state and the directorate aggregate tables hold, for every
\* (entity, year) with a record, one row whose count is the number of records
\* of exactly that entity and year and whose total_amount is the sum of their
\* amounts, followed by one year=0 row per entity computed over the entity alone.
C24_GroupsByExactKey ==
    /\ ~q1_full.none => GroupsByExactKey(q1_full, "state")
    /\ ~q2_full.none => GroupsByExactKey(q2_full, "directorate")

\* C25: in the per-capita table, the total_amount of a state's year=0 row is
\* the sum of the total_amount of the state's per-year rows.
C25_YearZeroTotalIsSumOfJoinedYears ==
    ~q6_df.none =>
       \A z \in RowsOf(q6_df) :
          z.year = 0 =>
             z.total_amount =
                SumSkipNa(Column(SelectSeq(q6_df.rows,
                                           LAMBDA r : r.state = z.state /\ r.year # 0),
                                 "total_amount"))

\* C26: every row of the state and of the directorate aggregate table has a
\* count of at least 1.
C26_CountAtLeastOne ==
    /\ ~q1_full.none => \A r \in RowsOf(q1_full) : r.grants_count >= 1
    /\ ~q2_full.none => \A r \in RowsOf(q2_full) : r.grants_count >= 1

\* C27: for every (state, year) of the state aggregate's per-year rows, the
\* rows of the three-way table of that state and year sum to the aggregate's
\* total_amount and grants_count.
C27_ThreeWayReconciles ==
    ~q4_df.none =>
       \A a \in SeqToSet(GroupYearly(df_grants.rows, "state")) :
          LET parts == SelectSeq(q4_df.rows,
                                 LAMBDA r : r.state = a.key /\ r.year = a.year)
          IN /\ SumSkipNa(Column(parts, "total_amount")) = a.total_amount
             /\ SumInts(Column(parts, "grants_count")) = a.grants_count

\* the directorates that occur in a table
DirectoratesOf(df) == {r.directorate : r \in RowsOf(df)} \ {NaNStr}

\* C28: the cancellation comparison table has exactly one row per directorate
\* of the grants or of the cancellations, with base_count 0 where the
\* directorate has no grant, cancel_count 0 and lost amount 0 where it has no
\* cancellation, and rate = cancel_count / base_count with 1 in place of a
\* base_count of 0, which is always a number.
C28_ComparisonTable ==
    ~q3_df.none =>
       LET dirs == DirectoratesOf(df_grants) \cup DirectoratesOf(df_trump)
       IN /\ {r.directorate : r \in RowsOf(q3_df)} = dirs
          /\ Len(q3_df.rows) = Cardinality(dirs)
          /\ \A r \in RowsOf(q3_df) :
                /\ r.directorate \notin DirectoratesOf(df_grants) => r.base_count = 0
                /\ r.directorate \notin DirectoratesOf(df_trump)
                      => r.cancel_count = 0 /\ r.lost_amt = Num(0)
                /\ r.base_count = 0 => r.rate = Num(r.cancel_count)
                /\ r.base_count # 0 => r.rate = Div(Num(r.cancel_count), Num(r.base_count))
                /\ IsNum(r.rate)

\* one directorate has cancellations and no grant, another grants and no
\* cancellation
C28_Witness ==
    /\ page \in {"Q3", "Dashboard"}
    /\ ~q3_df.none
    /\ \E r \in RowsOf(q3_df) :
          /\ r.directorate \notin DirectoratesOf(df_grants)
          /\ r.base_count = 0 /\ r.cancel_count >= 1 /\ r.rate = Num(r.cancel_count)
    /\ \E r \in RowsOf(q3_df) :
          /\ r.directorate \notin DirectoratesOf(df_trump)
          /\ r.base_count >= 1 /\ r.cancel_count = 0 /\ r.rate = Num(0)

====
